---- MODULE Spec2Model ----
(***************************************************************************)
(* matrix-notes-bot: the note store (storage.py), the in-memory note index *)
(* NOTES (note.py) and the command handlers that join them                 *)
(* (bot_commands.py).                                                      *)
(*                                                                         *)
(* The database runs in autocommit mode (storage.py:57,64), so every SQL   *)
(* statement is durable on its own and the process may stop between any    *)
(* two of them.  A statement fails either because the schema refuses it    *)
(* (table exists / is missing, unique index violated) or because the       *)
(* engine reports an error of its own (connection lost, database locked):  *)
(* the second kind is the injected fault of the actions below.             *)
(***************************************************************************)
EXTENDS Integers, Sequences, FiniteSets, TLC

\* ------------------------------------------------------------------ bounds
MaxNotes == 2
MaxFaults == 1
MaxHandlers == 2

\* ------------------------------------------------------- program constants
latest_migration_version == 3

\* ------------------------------------------------------------ input domains
Rooms == {"!r1", "!r2"}
Texts == {"a", "A", "b"}
Categories == {"general", "shop"}
Users == {"@u1"}
Handlers == 1..MaxHandlers

\* str.upper() on the note texts of the model
upper(t) == CASE t = "a" -> "A"
              [] t = "b" -> "B"
              [] OTHER -> t

\* A row of table note as the cursor returns it: (text, category, room_id,
\* target_user), columns 0..3.
Row(text, category, room_id, target_user) ==
    <<text, category, room_id, target_user>>

\* row[i] of Python (0-based); IndexError when i is past the end.
RowIndexOk(row, i) == i + 1 <= Len(row)
RowAt(row, i) == row[i + 1]

\* ---------------------------------------------------------------- state
VARIABLES
    db,               \* the durable database
    NOTES,            \* note.NOTES, an insertion-ordered dict, of this process
    phase,            \* "down" | "init" | "running" | "failed"
    pc,               \* position of Storage.__init__ while phase = "init"
    migration_level,  \* local of Storage.__init__
    pending,          \* an exception of _initial_db_setup waits for `finally`
    hs,               \* the command handlers (coroutines) of this process
    hist,             \* per key: what the handlers of this process did last
    faults,           \* engine errors injected so far
    legacy            \* the note rows the database held when it was found

vars == <<db, NOTES, phase, pc, migration_level, pending, hs, hist, faults,
          legacy>>

\* ------------------------------------------------------------- the database
\*   mv    table migration_version exists       ver   its rows
\*   note  table note exists                    rows  its rows, in rowid order
\*   temp  table note_temp exists               trows its rows
\*   idx   the table unique index note_room_id_text is on, or "none"
EmptyDb == [mv |-> FALSE, ver |-> {}, note |-> FALSE, rows |-> <<>>,
            temp |-> FALSE, trows |-> <<>>, idx |-> "none"]

Ok(d) == [ok |-> TRUE, db |-> d]
Err(d) == [ok |-> FALSE, db |-> d]

\* The (room_id, text) pairs of a row sequence are pairwise different.
UniqueRoomText(rs) ==
    \A i, j \in 1..Len(rs) :
        (i # j) => ~(rs[i][3] = rs[j][3] /\ rs[i][1] = rs[j][1])

\* SELECT version FROM migration_version; row = fetchone(); row[0]
SelectVersion(d) ==
    IF d.mv /\ d.ver # {}
    THEN [ok |-> TRUE, version |-> CHOOSE v \in d.ver : TRUE]
    ELSE [ok |-> FALSE, version |-> 0]

\* The version table dropped and created anew.
CreateVersionTableAnew(d) == Ok([d EXCEPT !.mv = TRUE, !.ver = {}])

\* CREATE TABLE migration_version (version INTEGER PRIMARY KEY)
CreateVersionTable(d) ==
    IF d.mv THEN Err(d) ELSE Ok([d EXCEPT !.mv = TRUE, !.ver = {}])

\* INSERT INTO migration_version (version) VALUES (0)
InsertVersionZero(d) ==
    IF ~d.mv \/ 0 \in d.ver THEN Err(d) ELSE Ok([d EXCEPT !.ver = @ \cup {0}])

\* CREATE TABLE note (text, category, room_id, target_user)
CreateNoteTable(d) ==
    IF d.note THEN Err(d) ELSE Ok([d EXCEPT !.note = TRUE, !.rows = <<>>])

\* CREATE UNIQUE INDEX note_room_id_text ON note(room_id, text)
CreateUniqueIndex(d) ==
    IF d.idx # "none" \/ ~d.note \/ ~UniqueRoomText(d.rows)
    THEN Err(d)
    ELSE Ok([d EXCEPT !.idx = "note"])

\* ALTER TABLE note RENAME TO note_temp (the index follows its table)
RenameNoteToTemp(d) ==
    IF ~d.note \/ d.temp
    THEN Err(d)
    ELSE Ok([d EXCEPT !.note = FALSE, !.rows = <<>>,
                      !.temp = TRUE, !.trows = d.rows,
                      !.idx = IF d.idx = "note" THEN "note_temp" ELSE @])

\* The copy leaving the rows behind.
CopyNothing(d) == IF ~d.note \/ ~d.temp THEN Err(d) ELSE Ok(d)

\* INSERT INTO note (...) SELECT ... FROM note_temp
CopyTempToNote(d) ==
    IF ~d.note \/ ~d.temp
       \/ (d.idx = "note" /\ ~UniqueRoomText(d.rows \o d.trows))
    THEN Err(d)
    ELSE Ok([d EXCEPT !.rows = d.rows \o d.trows])

\* DROP INDEX note_room_id_text
DropIndex(d) ==
    IF d.idx = "none" THEN Err(d) ELSE Ok([d EXCEPT !.idx = "none"])

\* DROP TABLE note_temp (its indexes go with it)
DropTemp(d) ==
    IF ~d.temp
    THEN Err(d)
    ELSE Ok([d EXCEPT !.temp = FALSE, !.trows = <<>>,
                      !.idx = IF d.idx = "note_temp" THEN "none" ELSE @])

\* UPDATE migration_version SET version = 1
UpdateVersionOne(d) ==
    IF ~d.mv
    THEN Err(d)
    ELSE Ok([d EXCEPT !.ver = IF @ = {} THEN {} ELSE {1}])

\* The statements of Storage._initial_db_setup, in order.
SetupStmt(i, d) ==
    CASE i = 1 -> CreateVersionTable(d)
      [] i = 2 -> InsertVersionZero(d)
      [] i = 3 -> CreateNoteTable(d)
      [] i = 4 -> CreateUniqueIndex(d)
SetupLen == 4

\* The statements of the v0 -> v1 step of Storage._run_db_migrations, in order.
MigrationStmt(i, d) ==
    CASE i = 1 -> RenameNoteToTemp(d)
      [] i = 2 -> CreateNoteTable(d)
      [] i = 3 -> CopyTempToNote(d)
      [] i = 4 -> DropIndex(d)
      [] i = 5 -> CreateUniqueIndex(d)
      [] i = 6 -> DropTemp(d)
      [] i = 7 -> UpdateVersionOne(d)
MigrationLen == 7

\* ------------------------------------------------------------ the Note index
\* A Note that keeps its text folded to upper case.
NoteFolded(room_id, note_text, category, target_user) ==
    [room_id |-> room_id, note_text |-> upper(note_text),
     category |-> category, target_user |-> target_user]

\* note.Note: the fields the constructor stores (note.py:42-47)
Note(room_id, note_text, category, target_user) ==
    [room_id |-> room_id, note_text |-> note_text,
     category |-> category, target_user |-> target_user]

\* The key without the case folding.
NoteKeyExact(room_id, note_text) == <<room_id, note_text>>

\* The key NOTES is accessed under (note.py:63-69)
NoteKey(room_id, note_text) == <<room_id, upper(note_text)>>

\* The key the history of a (room, text) is kept under.
HistKey(room, text) == <<room, upper(text)>>
Keys == {HistKey(r, t) : r \in Rooms, t \in Texts}

\* NOTES is a Python dict: a sequence of (key, note) entries in insertion
\* order, with no key twice.
DictKeys(D) == {D[i].key : i \in 1..Len(D)}
DictHas(D, k) == k \in DictKeys(D)
DictPos(D, k) == CHOOSE i \in 1..Len(D) : D[i].key = k
DictGet(D, k) == D[DictPos(D, k)].note
\* D[k] = v : an existing key keeps its position
DictPut(D, k, v) ==
    IF DictHas(D, k)
    THEN [D EXCEPT ![DictPos(D, k)] = [key |-> k, note |-> v]]
    ELSE Append(D, [key |-> k, note |-> v])
\* D.pop(k, None)
DictPop(D, k) == SelectSeq(D, LAMBDA e : e.key # k)
\* D.update(E)
RECURSIVE DictUpdate(_, _)
DictUpdate(D, E) ==
    IF E = <<>> THEN D
    ELSE DictUpdate(DictPut(D, Head(E).key, Head(E).note), Tail(E))

\* ------------------------------------------------------------ Storage methods
\* Note(client=, store=, note_text=, room_id=, target_user=) at
\* storage.py:219-225 passes no category, which Note.__init__ requires
\* (note.py:39): TypeError.
LoadPassesCategory == FALSE

\* One turn of the loop of Storage._load_notes: the row's entry, or an error.
LoadRow(row) ==
    IF RowIndexOk(row, 0) /\ RowIndexOk(row, 1)
       /\ RowIndexOk(row, 5) /\ RowIndexOk(row, 6) /\ LoadPassesCategory
    THEN [ok |-> TRUE,
          key |-> NoteKey(RowAt(row, 5), RowAt(row, 0)),
          note |-> Note(RowAt(row, 5), RowAt(row, 0), "none", RowAt(row, 6))]
    ELSE [ok |-> FALSE, key |-> <<>>, note |-> <<>>]

\* Storage._load_notes: SELECT text, category, room_id, target_user FROM note,
\* then the loop over the rows.
RECURSIVE LoadRows(_, _)
LoadRows(rows, notes) ==
    IF rows = <<>> THEN [ok |-> TRUE, notes |-> notes]
    ELSE LET r == LoadRow(Head(rows)) IN
         IF r.ok
         THEN LoadRows(Tail(rows), DictPut(notes, r.key, r.note))
         ELSE [ok |-> FALSE, notes |-> <<>>]

_load_notes(d) ==
    IF ~d.note THEN [ok |-> FALSE, notes |-> <<>>]
    ELSE LoadRows(d.rows, <<>>)

\* store_note with the text folded to upper case before the INSERT.
store_note_folded(d, note) ==
    LET row == Row(upper(note.note_text), note.category, note.room_id,
                   note.target_user) IN
    IF ~d.note
       \/ (d.idx = "note" /\ ~UniqueRoomText(Append(d.rows, row)))
    THEN Err(d)
    ELSE Ok([d EXCEPT !.rows = Append(@, row)])

\* Storage.store_note: INSERT INTO note (...) VALUES (?, ?, ?, ?)
store_note(d, note) ==
    LET row == Row(note.note_text, note.category, note.room_id,
                   note.target_user) IN
    IF ~d.note
       \/ (d.idx = "note" /\ ~UniqueRoomText(Append(d.rows, row)))
    THEN Err(d)
    ELSE Ok([d EXCEPT !.rows = Append(@, row)])

\* Storage.delete_note: DELETE FROM note WHERE room_id = ? AND text = ?
delete_note(d, room_id, note_text) ==
    IF ~d.note
    THEN Err(d)
    ELSE Ok([d EXCEPT !.rows =
                SelectSeq(@, LAMBDA r : ~(r[3] = room_id /\ r[1] = note_text))])

\* --------------------------------------------------------------- the process
Idle == [pc |-> "idle", op |-> "none", room |-> "none", text |-> "none",
         outcome |-> "none", out |-> <<>>]
At(a, i) == [at |-> a, i |-> i]
NoHist == [k \in Keys |-> "absent"]

\* A process that is not running holds nothing in memory.
Stopped(p) ==
    /\ phase' = p
    /\ pc' = At("none", 0)
    /\ migration_level' = 0
    /\ pending' = FALSE
    /\ NOTES' = <<>>
    /\ hs' = [h \in Handlers |-> Idle]
    /\ hist' = NoHist

Init ==
    /\ db = EmptyDb
    /\ NOTES = <<>>
    /\ phase = "down"
    /\ pc = At("none", 0)
    /\ migration_level = 0
    /\ pending = FALSE
    /\ hs = [h \in Handlers |-> Idle]
    /\ hist = NoHist
    /\ faults = 0
    /\ legacy = <<>>

\* An engine error is injected only into a statement the schema accepts.
Fault(f, ok) ==
    /\ f => (ok /\ faults < MaxFaults)
    /\ faults' = IF f THEN faults + 1 ELSE faults
    /\ legacy' = legacy

\* Storage.__init__ is entered: migration_level = 0 (storage.py:36)
Start ==
    /\ phase \in {"down", "failed"}
    /\ phase' = "init"
    /\ pc' = At("select", 0)
    /\ migration_level' = 0
    /\ pending' = FALSE
    /\ UNCHANGED <<db, NOTES, hs, hist, faults, legacy>>

\* try: SELECT version ...; migration_level = row[0]
\* except Exception: self._initial_db_setup()
ReadVersion(f) ==
    /\ phase = "init" /\ pc.at = "select"
    /\ LET r == SelectVersion(db) IN
       /\ Fault(f, r.ok)
       /\ IF r.ok /\ ~f
          THEN migration_level' = r.version /\ pc' = At("finally", 0)
          ELSE migration_level' = migration_level /\ pc' = At("setup", 1)
    /\ UNCHANGED <<db, NOTES, phase, pending, hs, hist>>

\* One statement of _initial_db_setup; an exception leaves the except block
\* through `finally`.
InitialDbSetup(f) ==
    /\ phase = "init" /\ pc.at = "setup"
    /\ LET r == SetupStmt(pc.i, db) IN
       /\ Fault(f, r.ok)
       /\ IF r.ok /\ ~f
          THEN /\ db' = r.db
               /\ pending' = pending
               /\ pc' = IF pc.i = SetupLen THEN At("finally", 0)
                        ELSE At("setup", pc.i + 1)
          ELSE /\ db' = db
               /\ pending' = TRUE
               /\ pc' = At("finally", 0)
    /\ UNCHANGED <<NOTES, phase, migration_level, hs, hist>>

\* `finally` running the migration whenever the version read is below
\* latest_migration_version.
FinallyMigratesAlways ==
    /\ phase = "init" /\ pc.at = "finally"
    /\ IF migration_level < latest_migration_version
       THEN /\ pc' = At("migrate", 1)
            /\ UNCHANGED <<NOTES, phase, migration_level, pending, hs, hist>>
       ELSE /\ pc' = At("load", 0)
            /\ UNCHANGED <<NOTES, phase, migration_level, pending, hs, hist>>
    /\ UNCHANGED <<db, faults, legacy>>

\* `finally` swallowing the pending exception.
AfterFinallySwallows ==
    /\ pc' = At("load", 0)
    /\ UNCHANGED <<NOTES, phase, migration_level, pending, hs, hist>>

\* Where Storage.__init__ goes once `finally` is through: the pending
\* exception is re-raised, or the notes are loaded.
AfterFinally ==
    IF pending
    THEN Stopped("failed")
    ELSE /\ pc' = At("load", 0)
         /\ UNCHANGED <<NOTES, phase, migration_level, pending, hs, hist>>

\* finally: if migration_level < latest_migration_version:
\*              self._run_db_migrations(migration_level)
\* and in _run_db_migrations: if current_migration_version < 1: ...
Finally ==
    /\ phase = "init" /\ pc.at = "finally"
    /\ IF migration_level < latest_migration_version /\ migration_level < 1
       THEN /\ pc' = At("migrate", 1)
            /\ UNCHANGED <<NOTES, phase, migration_level, pending, hs, hist>>
       ELSE AfterFinally
    /\ UNCHANGED <<db, faults, legacy>>

\* One statement of the v0 -> v1 migration; an exception leaves __init__.
RunDbMigrations(f) ==
    /\ phase = "init" /\ pc.at = "migrate"
    /\ LET r == MigrationStmt(pc.i, db) IN
       /\ Fault(f, r.ok)
       /\ IF r.ok /\ ~f
          THEN /\ db' = r.db
               /\ IF pc.i = MigrationLen
                  THEN AfterFinally
                  ELSE /\ pc' = At("migrate", pc.i + 1)
                       /\ UNCHANGED <<NOTES, phase, migration_level, pending,
                                      hs, hist>>
          ELSE /\ db' = db
               /\ Stopped("failed")

\* NOTES.update(self._load_notes())
LoadNotes(f) ==
    /\ phase = "init" /\ pc.at = "load"
    /\ LET r == _load_notes(db) IN
       /\ Fault(f, r.ok)
       /\ IF r.ok /\ ~f
          THEN /\ NOTES' = DictUpdate(NOTES, r.notes)
               /\ phase' = "running"
               /\ pc' = At("none", 0)
               /\ UNCHANGED <<migration_level, pending, hs, hist>>
          ELSE Stopped("failed")
    /\ UNCHANGED db

\* The process stops (killed, power loss, shutdown) between two statements.
Crash ==
    /\ phase \in {"init", "running"}
    /\ Stopped("down")
    /\ UNCHANGED <<db, faults, legacy>>

\* ------------------------------------------------------- the command handlers
\* What a handler did: the memory it leaves and how it goes on.
Done(N, d, outcome) == [NOTES |-> N, db |-> d, outcome |-> outcome]

\* _note putting its note into NOTES before the duplicate check.
_note_puts_first(N, d, room_id, note_text, category, target, f) ==
    LET key == NoteKey(room_id, note_text)
        note == Note(room_id, note_text, category, target)
        r == store_note(d, note)
    IN  IF DictHas(N, key)
        THEN Done(DictPut(N, key, note), d, "duplicate")
        ELSE IF r.ok /\ ~f
             THEN Done(DictPut(N, key, note), r.db, "created")
             ELSE Done(DictPut(N, key, note), d, "error")

\* _note without its duplicate check.
_note_unchecked(N, d, room_id, note_text, category, target, f) ==
    LET key == NoteKey(room_id, note_text)
        note == Note(room_id, note_text, category, target)
        r == store_note(d, note)
    IN  IF r.ok /\ ~f
        THEN Done(DictPut(N, key, note), r.db, "created")
        ELSE Done(DictPut(N, key, note), d, "error")

\* Command._note up to its first await (bot_commands.py:100-127): the
\* duplicate check, NOTES[key] = note, then self.store.store_note(note).
\* f: the engine fails the INSERT.
_note(N, d, room_id, note_text, category, target, f) ==
    LET key == NoteKey(room_id, note_text)
        note == Note(room_id, note_text, category, target)
        r == store_note(d, note)
    IN  IF DictHas(N, key)
        THEN Done(N, d, "duplicate")
        ELSE IF r.ok /\ ~f
             THEN Done(DictPut(N, key, note), r.db, "created")
             ELSE Done(DictPut(N, key, note), d, "error")

\* cancel without the NOTES.pop.
cancel_keeps_entry(N, d, note, f) ==
    LET r == delete_note(d, note.room_id, note.note_text) IN
    IF r.ok /\ ~f THEN Done(N, r.db, "deleted") ELSE Done(N, d, "error")

\* cancel popping the key with the text as stored, not folded.
cancel_pops_exact(N, d, note, f) ==
    LET r == delete_note(d, note.room_id, note.note_text)
        popped == DictPop(N, <<note.room_id, note.note_text>>)
    IN  IF r.ok /\ ~f
        THEN Done(popped, r.db, "deleted")
        ELSE Done(popped, d, "error")

\* Note.cancel (note.py:49-60): NOTES.pop(key, None), then
\* self.store.delete_note(self.room_id, self.note_text).
cancel(N, d, note, f) ==
    LET r == delete_note(d, note.room_id, note.note_text) IN
    IF r.ok /\ ~f
    THEN Done(DictPop(N, NoteKey(note.room_id, note.note_text)), r.db,
              "deleted")
    ELSE Done(DictPop(N, NoteKey(note.room_id, note.note_text)), d, "error")

\* _delete_note deleting the row by the text of the command.
_delete_note_typed(N, d, room_id, note_text, f) ==
    LET key == NoteKey(room_id, note_text) IN
    IF DictHas(N, key)
    THEN cancel(N, d, [DictGet(N, key) EXCEPT !.note_text = note_text], f)
    ELSE Done(N, d, "unknown")

\* Command._delete_note up to its await (bot_commands.py:234-250)
_delete_note(N, d, room_id, note_text, f) ==
    LET key == NoteKey(room_id, note_text) IN
    IF DictHas(N, key)
    THEN cancel(N, d, DictGet(N, key), f)
    ELSE Done(N, d, "unknown")

\* A handler that raised is through; the others wait in their await.
Handler(op, room, text, outcome) ==
    [pc |-> IF outcome = "error" THEN "raised" ELSE "await",
     op |-> op, room |-> room, text |-> text, outcome |-> outcome,
     out |-> <<>>]

\* A "note" command arrives and runs to its first await.
NoteCmd(h, room, text, category, sender, f) ==
    /\ phase = "running" /\ hs[h] = Idle
    /\ LET k == HistKey(room, text)
           r == _note(NOTES, db, room, text, category, sender, f)
       IN
       /\ Len(r.NOTES) <= MaxNotes /\ Len(r.db.rows) <= MaxNotes
       /\ Fault(f, ~DictHas(NOTES, NoteKey(room, text))
                   /\ store_note(db, Note(room, text, category, sender)).ok)
       /\ NOTES' = r.NOTES
       /\ db' = r.db
       /\ hs' = [hs EXCEPT ![h] = Handler("note", room, text, r.outcome)]
       /\ hist' = [hist EXCEPT ![k] =
                     CASE r.outcome = "created" -> "active"
                       [] r.outcome = "error" -> "failed"
                       [] OTHER -> @]
    /\ UNCHANGED <<phase, pc, migration_level, pending>>

\* A "delete" command arrives and runs to its await.
DeleteCmd(h, room, text, f) ==
    /\ phase = "running" /\ hs[h] = Idle
    /\ LET k == HistKey(room, text)
           r == _delete_note(NOTES, db, room, text, f)
       IN
       /\ Fault(f, DictHas(NOTES, NoteKey(room, text)) /\ db.note)
       /\ NOTES' = r.NOTES
       /\ db' = r.db
       /\ hs' = [hs EXCEPT ![h] = Handler("delete", room, text, r.outcome)]
       /\ hist' = [hist EXCEPT ![k] =
                     IF r.outcome \in {"deleted", "error"} THEN "deleted"
                     ELSE @]
    /\ UNCHANGED <<phase, pc, migration_level, pending>>

\* The line of a note (bot_commands.py:194-201): the note taker is named
\* in rooms of more than two users only.
Line(note, group) ==
    [said |-> IF group THEN note.target_user ELSE "none",
     note_text |-> note.note_text]

\* notes_lines[category].append(line), the category entered at its first
\* line (bot_commands.py:205-208); a dict keeps its keys in insertion order.
LinesAppend(notes_lines, category, line) ==
    IF \E i \in 1..Len(notes_lines) : notes_lines[i].category = category
    THEN [i \in 1..Len(notes_lines) |->
            IF notes_lines[i].category = category
            THEN [notes_lines[i] EXCEPT !.lines = Append(@, line)]
            ELSE notes_lines[i]]
    ELSE Append(notes_lines, [category |-> category, lines |-> <<line>>])

\* The loop of _list_notes with its room test left out.
RECURSIVE list_loop_any_room(_, _, _, _, _)
list_loop_any_room(N, room_id, cat, group, notes_lines) ==
    IF N = <<>> THEN notes_lines
    ELSE LET note == Head(N).note IN
         IF cat # "" /\ cat # note.category
         THEN list_loop_any_room(Tail(N), room_id, cat, group, notes_lines)
         ELSE list_loop_any_room(Tail(N), room_id, cat, group,
                 LinesAppend(notes_lines, note.category, Line(note, group)))

\* The loop over NOTES.values() (bot_commands.py:185-208).
RECURSIVE list_loop(_, _, _, _, _)
list_loop(N, room_id, cat, group, notes_lines) ==
    IF N = <<>> THEN notes_lines
    ELSE LET note == Head(N).note IN
         IF cat # "" /\ cat # note.category
         THEN list_loop(Tail(N), room_id, cat, group, notes_lines)
         ELSE IF note.room_id # room_id
         THEN list_loop(Tail(N), room_id, cat, group, notes_lines)
         ELSE list_loop(Tail(N), room_id, cat, group,
                 LinesAppend(notes_lines, note.category, Line(note, group)))

\* _list_notes listing every room's notes.
_list_notes_any_room(N, room_id, cat, group) ==
    list_loop_any_room(N, room_id, cat, group, <<>>)

\* _list_notes taking no notice of its category argument.
_list_notes_any_category(N, room_id, cat, group) ==
    list_loop(N, room_id, "", group, <<>>)

\* Command._list_notes (bot_commands.py:180-229): the sections of the
\* message it sends, in order, each a category and its lines; none when it
\* sends "There are no notes ...".  cat is " ".join(self.args), "" when
\* the command has no argument.
_list_notes(N, room_id, cat, group) == list_loop(N, room_id, cat, group, <<>>)

\* What a list command may have as its argument: nothing, a category as
\* stored, or one in another case.
ListArgs == {""} \cup Categories \cup {"Shop"}

\* A "listnotes" command arrives and runs to its await.
ListCmd(h, room, cat, group) ==
    /\ phase = "running" /\ hs[h] = Idle
    /\ LET out == _list_notes(NOTES, room, cat, group) IN
       hs' = [hs EXCEPT ![h] =
                [Handler("list", room, cat,
                         IF out = <<>> THEN "empty" ELSE "listed")
                   EXCEPT !.out = out]]
    /\ UNCHANGED <<db, NOTES, phase, pc, migration_level, pending, hist, faults,
                   legacy>>

\* The awaited send_text_to_room returns and the handler ends, or the
\* exception of a handler that raised has left it.
Finish(h) ==
    /\ phase = "running" /\ hs[h] # Idle
    /\ hs' = [hs EXCEPT ![h] = Idle]
    /\ UNCHANGED <<db, NOTES, phase, pc, migration_level, pending, hist, faults,
                   legacy>>

\* Storage.__init__, statement by statement, and the process stopping.
Startup ==
    \/ Start
    \/ \E f \in BOOLEAN : ReadVersion(f)
    \/ \E f \in BOOLEAN : InitialDbSetup(f)
    \/ Finally
    \/ \E f \in BOOLEAN : RunDbMigrations(f)
    \/ \E f \in BOOLEAN : LoadNotes(f)
    \/ Crash

\* The commands of the handlers H, in the rooms R, on the texts T.
Commands(H, R, T) ==
    \/ \E h \in H, r \in R, t \in T, c \in Categories, u \in Users,
          f \in BOOLEAN : NoteCmd(h, r, t, c, u, f)
    \/ \E h \in H, r \in R, t \in T, f \in BOOLEAN : DeleteCmd(h, r, t, f)
    \/ \E h \in H : Finish(h)

\* The whole life of the bot on one database: startups, stops, and its
\* commands one at a time, on one text in its two cases.  A handler changes
\* NOTES and the database only before its first await, so further handlers
\* in flight add nothing to what these two can become.
Next == Startup \/ Commands({1}, Rooms, {"a", "A"})

Spec == Init /\ [][Next]_vars

\* The database a first startup leaves (setup, then the v0 -> v1 migration).
FreshDb == [mv |-> TRUE, ver |-> {1}, note |-> TRUE, rows |-> <<>>,
            temp |-> FALSE, trows |-> <<>>, idx |-> "note"]

\* A running process after a first startup, all its handlers at work.
InitRunning ==
    /\ db = FreshDb
    /\ NOTES = <<>>
    /\ phase = "running"
    /\ pc = At("none", 0)
    /\ migration_level = 0
    /\ pending = FALSE
    /\ hs = [h \in Handlers |-> Idle]
    /\ hist = NoHist
    /\ faults = 0
    /\ legacy = <<>>

\* The handlers of one room at work together on one text in its two cases.
NextConcurrent == Commands(Handlers, {"!r1"}, {"a", "A"})

SpecConcurrent == InitRunning /\ [][NextConcurrent]_vars

\* The list commands of the handlers H in the rooms R.
Listing(H, R) ==
    \E h \in H, r \in R, c \in ListArgs, g \in BOOLEAN : ListCmd(h, r, c, g)

\* One handler at a time noting, deleting and listing two texts in the two
\* rooms.
NextList == Commands({1}, Rooms, {"a", "b"}) \/ Listing({1}, Rooms)

SpecList == InitRunning /\ [][NextList]_vars

\* A database an earlier release left at schema version 0, with its notes.
AllRows == {Row(t, c, r, u) : t \in Texts, c \in Categories, r \in Rooms,
                              u \in Users}
LegacyRows ==
    {rs \in UNION {[1..n -> AllRows] : n \in 0..MaxNotes} : UniqueRoomText(rs)}

InitLegacy ==
    /\ \E rs \in LegacyRows :
          /\ db = [mv |-> TRUE, ver |-> {0}, note |-> TRUE, rows |-> rs,
                   temp |-> FALSE, trows |-> <<>>, idx |-> "note"]
          /\ legacy = rs
    /\ NOTES = <<>>
    /\ phase = "down"
    /\ pc = At("none", 0)
    /\ migration_level = 0
    /\ pending = FALSE
    /\ hs = [h \in Handlers |-> Idle]
    /\ hist = NoHist
    /\ faults = 0

SpecLegacy == InitLegacy /\ [][Startup]_vars

\* ================================================================== claims
\* A handler h takes up a command op on (r, t) in this step.
Begins(h, op, r, t) ==
    /\ hs[h] = Idle
    /\ hs'[h].op = op /\ hs'[h].room = r /\ hs'[h].text = t

\* The rows of d's note table that hold (room_id, text).
RowsOf(d, room_id, text) ==
    {i \in 1..Len(d.rows) : d.rows[i][3] = room_id /\ d.rows[i][1] = text}

\* The row a note is stored as.
RowOfNote(n) == Row(n.note_text, n.category, n.room_id, n.target_user)

\* C1 (Uniqueness): while the last thing the handlers did to the key of
\* (R, T) is a create that succeeded, with no delete of that key since,
\* every create of (R, T') with upper(T') = upper(T) ends as a duplicate
\* and changes neither NOTES nor the note table.
C1_Uniqueness ==
    [][\A h \in Handlers, r \in Rooms, t \in Texts :
         (Begins(h, "note", r, t) /\ hist[HistKey(r, t)] = "active")
            => /\ hs'[h].outcome = "duplicate"
               /\ NOTES' = NOTES
               /\ db' = db]_vars

\* A create was turned down as a duplicate of a note typed in another case.
C1_Witness ==
    \E h \in Handlers :
       /\ hs[h].op = "note" /\ hs[h].outcome = "duplicate"
       /\ hist[HistKey(hs[h].room, hs[h].text)] = "active"
       /\ \E i \in 1..Len(NOTES) :
             /\ NOTES[i].key = HistKey(hs[h].room, hs[h].text)
             /\ NOTES[i].note.note_text # hs[h].text

\* C2 (Rebuild after restart), as claimed: whenever a startup gets to load
\* the notes and the engine answers the SELECT, the load completes and NOTES
\* holds exactly the rows of the note table, each under its key.
IndexIsRows(N, d) ==
    /\ Len(N) = Len(d.rows)
    /\ \A i \in 1..Len(d.rows) :
          \E j \in 1..Len(N) :
             /\ N[j].key = HistKey(d.rows[i][3], d.rows[i][1])
             /\ RowOfNote(N[j].note) = d.rows[i]

C2_RebuildAsClaimed ==
    [][(LoadNotes(FALSE) /\ db.note)
          => (phase' = "running" /\ IndexIsRows(NOTES', db'))]_vars

\* C3 (No partial Index state on a failed create), as claimed: a create
\* whose INSERT raised has left no entry under its key.
C3_FailedCreateAsClaimed ==
    \A h \in Handlers :
       (hs[h].op = "note" /\ hs[h].outcome = "error")
          => ~DictHas(NOTES, HistKey(hs[h].room, hs[h].text))

\* C4 (Delete writes through the Store first), as claimed: a delete whose
\* DELETE raised has left the note in NOTES.
C4_FailedDeleteAsClaimed ==
    \A h \in Handlers :
       (hs[h].op = "delete" /\ hs[h].outcome = "error")
          => DictHas(NOTES, HistKey(hs[h].room, hs[h].text))

\* C5 (Identity key on durable state), as claimed: the note table never
\* holds two rows of one room whose texts are equal after uppercasing.
C5_DurableKeyAsClaimed ==
    \A i, j \in 1..Len(db.rows) :
       (i # j) => ~(/\ db.rows[i][3] = db.rows[j][3]
                    /\ upper(db.rows[i][1]) = upper(db.rows[j][1]))

\* C6 (Lifecycle): a delete of (R, T) that follows a create of its key that
\* succeeded leaves no entry under the key and, unless the DELETE itself
\* raised, ends as "deleted" with the note's row gone from the note table;
\* a further delete of the key, with no create of it in between, ends as
\* "unknown" and changes neither NOTES nor the database.
C6_Lifecycle ==
    [][\A h \in Handlers, r \in Rooms, t \in Texts :
         LET k == HistKey(r, t) IN
         /\ (Begins(h, "delete", r, t) /\ hist[k] = "active")
               => /\ ~DictHas(NOTES', k)
                  /\ DictHas(NOTES, k)
                  /\ hs'[h].outcome # "error"
                        => /\ hs'[h].outcome = "deleted"
                           /\ RowsOf(db', r, DictGet(NOTES, k).note_text) = {}
         /\ (Begins(h, "delete", r, t) /\ hist[k] = "deleted")
               => /\ hs'[h].outcome = "unknown"
                  /\ NOTES' = NOTES
                  /\ db' = db]_vars

\* A second delete of a key was answered "unknown".
C6_Witness ==
    \E h \in Handlers :
       /\ hs[h].op = "delete" /\ hs[h].outcome = "unknown"
       /\ hist[HistKey(hs[h].room, hs[h].text)] = "deleted"
       /\ RowsOf(db, hs[h].room, hs[h].text) = {}
       /\ faults = 0

\* C7 (Migration reaches the latest version), as claimed: once a startup
\* has completed, migration_version holds latest_migration_version.
C7_LatestVersionAsClaimed ==
    phase = "running" => db.ver = {latest_migration_version}

\* The notes of two row sequences are the same rows.
SameRows(a, b) ==
    /\ Len(a) = Len(b)
    /\ \A x \in {a[i] : i \in 1..Len(a)} \cup {b[i] : i \in 1..Len(b)} :
          Cardinality({i \in 1..Len(a) : a[i] = x})
             = Cardinality({i \in 1..Len(b) : b[i] = x})

\* C8 (Migration preservation): when the last statement of the v0 -> v1
\* migration has run, on a database found at version 0 with N rows, the
\* note table holds exactly those rows, column for column, the unique index
\* on (room_id, text) is on it and the version is 1.
C8_MigrationPreserves ==
    [][(/\ phase = "init" /\ pc.at = "migrate" /\ pc.i = MigrationLen
        /\ MigrationStmt(pc.i, db).ok
        /\ RunDbMigrations(FALSE))
          => /\ db'.note /\ ~db'.temp
             /\ SameRows(db'.rows, legacy)
             /\ db'.idx = "note"
             /\ UniqueRoomText(db'.rows)
             /\ db'.ver = {1}]_vars

\* The migration ran through on a database that held MaxNotes notes.
C8_Witness ==
    /\ phase = "init" /\ pc.at = "load" /\ migration_level = 0
    /\ Len(legacy) = MaxNotes
    /\ db.ver = {1}

\* C9 (Concurrent creates on one key): while a handler that created a note
\* is still waiting in its await, another handler's create of the same key
\* ends as a duplicate without an INSERT, and NOTES holds one entry for the
\* key, which is a row of the note table.
C9_ConcurrentCreates ==
    [][\A h, g \in Handlers, r \in Rooms, t \in Texts :
         LET k == HistKey(r, t) IN
         (/\ Begins(h, "note", r, t)
          /\ g # h
          /\ hs[g].pc = "await" /\ hs[g].op = "note"
          /\ hs[g].outcome = "created"
          /\ HistKey(hs[g].room, hs[g].text) = k
          /\ hist[k] = "active")
            => /\ hs'[h].outcome = "duplicate"
               /\ db' = db
               /\ Cardinality({i \in 1..Len(NOTES') : NOTES'[i].key = k}) = 1
               /\ \E i \in 1..Len(db'.rows) :
                     db'.rows[i] = RowOfNote(DictGet(NOTES', k))]_vars

\* Two handlers wait in their awaits after creating the same key in
\* different cases: one created it, the other was turned down.
C9_Witness ==
    \E h, g \in Handlers :
       /\ hs[h].pc = "await" /\ hs[h].op = "note"
       /\ hs[h].outcome = "created"
       /\ hs[g].pc = "await" /\ hs[g].op = "note"
       /\ hs[g].outcome = "duplicate"
       /\ hs[g].room = hs[h].room
       /\ hs[g].text # hs[h].text
       /\ upper(hs[g].text) = upper(hs[h].text)
       /\ Len(db.rows) = 1
       /\ Len(NOTES) = 1

\* A statement of _run_db_migrations raises in this step.
MigrationStmtFails ==
    \/ RunDbMigrations(TRUE)
    \/ /\ phase = "init" /\ pc.at = "migrate"
       /\ ~MigrationStmt(pc.i, db).ok
       /\ RunDbMigrations(FALSE)

\* C10 (Startup failure is fatal): once a statement of _initial_db_setup
\* has raised, and when a statement of the migration raises, the process
\* never gets to run: Storage.__init__ ends in the exception, NOTES stays
\* empty and no handler is at work.
C10_StartupFailureFatal ==
    [][/\ pending => /\ phase' \in {"init", "failed", "down"}
                     /\ NOTES' = <<>>
                     /\ \A h \in Handlers : hs'[h] = Idle
       /\ (pending /\ phase' = "init") => pending'
       /\ MigrationStmtFails => /\ phase' = "failed"
                                /\ NOTES' = <<>>
                                /\ \A h \in Handlers : hs'[h] = Idle
       /\ phase = "failed" => phase' \in {"failed", "init"}
       /\ (phase = "failed" /\ phase' = "init") => pc' = At("select", 0)]_vars

\* The setup has raised on a database that exists already and the
\* migration of the `finally` is at its last statement.
C10_Witness ==
    /\ phase = "init" /\ pending
    /\ pc = At("migrate", MigrationLen)
    /\ MigrationStmt(pc.i, db).ok
    /\ NOTES = <<>>

\* The version migration_version holds; -1 while it holds none.
StoredVersion(d) ==
    IF d.ver = {} THEN -1 ELSE CHOOSE v \in d.ver : \A w \in d.ver : w <= v

\* C11 (Schema version is monotonic): migration_version never holds two
\* rows, its first value is 0, written by _initial_db_setup, and no step
\* of any startup, failure, stop or command lowers or removes it.
C11_VersionMonotonic ==
    [][/\ StoredVersion(db') >= StoredVersion(db)
       /\ Cardinality(db'.ver) <= 1
       /\ (StoredVersion(db) = -1 /\ StoredVersion(db') # -1)
             => /\ StoredVersion(db') = 0
                /\ phase = "init" /\ pc = At("setup", 2)]_vars

\* A database at version 1 on which a startup failed is being served by
\* a later process.
C11_Witness ==
    /\ phase = "running"
    /\ StoredVersion(db) = 1
    /\ faults = 1
    /\ legacy = <<>>

\* The keys (room_id, upper(text)) of the rows of d's note table.
StoreKeys(d) == {HistKey(d.rows[i][3], d.rows[i][1]) : i \in 1..Len(d.rows)}

\* N and the note table of d hold the same keys, one row per key, each
\* entry with the text, category and target_user of its row.
InLockstep(N, d) ==
    /\ DictKeys(N) = StoreKeys(d)
    /\ Len(N) = Len(d.rows)
    /\ \A j \in 1..Len(N) :
          \E i \in 1..Len(d.rows) :
             /\ d.rows[i] = RowOfNote(N[j].note)
             /\ N[j].key = HistKey(d.rows[i][3], d.rows[i][1])

\* C12 (Index stays in lockstep with Store): in a running process, while
\* the engine has failed no statement, the keys of NOTES are the keys
\* (room_id, upper(text)) of the rows of table note, one row per key, and
\* the entry under a key holds the text, category and target_user of its
\* row. A handler runs without suspension from its check to its Store
\* call, so no state lies inside a create or a delete.
C12_Lockstep == (phase = "running" /\ faults = 0) => InLockstep(NOTES, db)

\* Two notes are held, one of them typed in lower case, and no statement
\* has failed.
C12_Witness ==
    /\ phase = "running" /\ faults = 0
    /\ Len(NOTES) = 2 /\ Len(db.rows) = 2
    /\ \E j \in 1..Len(NOTES) : NOTES[j].note.note_text = "a"

\* C13 (Per-key lifecycle), as claimed: once the last thing done to a key
\* is a delete, no step leaves a note active under that key.
C13_TerminalAsClaimed ==
    [][\A k \in Keys :
         hist[k] = "deleted" => (hist'[k] # "active" /\ ~DictHas(NOTES', k))]_vars

\* C13, amended: a deleted key has no entry in NOTES, only a "note"
\* command for that key gives it one again, and that command is treated
\* as the create of a key never used: it is no duplicate, and unless its
\* INSERT raises the note is active again.
C13_DeletedUntilCreated ==
    [][\A k \in Keys :
         hist[k] = "deleted"
            => /\ ~DictHas(NOTES, k)
               /\ DictHas(NOTES', k)
                     => \E h \in Handlers, r \in Rooms, t \in Texts :
                           HistKey(r, t) = k /\ Begins(h, "note", r, t)
               /\ \A h \in Handlers, r \in Rooms, t \in Texts :
                     (HistKey(r, t) = k /\ Begins(h, "note", r, t))
                        => /\ hs'[h].outcome \in {"created", "error"}
                           /\ DictHas(NOTES', k)
                           /\ hs'[h].outcome = "created"
                                 => hist'[k] = "active"]_vars

\* A handler deleted a note and is still in its await while another one
\* has created a note under the same key again.
C13_Witness ==
    \E h \in Handlers, g \in Handlers :
       /\ hs[h].op = "delete" /\ hs[h].outcome = "deleted"
       /\ hs[g].op = "note" /\ hs[g].outcome = "created"
       /\ HistKey(hs[h].room, hs[h].text) = HistKey(hs[g].room, hs[g].text)
       /\ hist[HistKey(hs[g].room, hs[g].text)] = "active"
       /\ DictHas(NOTES, HistKey(hs[g].room, hs[g].text))

\* The lines of a listing, section after section.
RECURSIVE AllLines(_)
AllLines(out) ==
    IF out = <<>> THEN <<>> ELSE Head(out).lines \o AllLines(Tail(out))

\* The entries of N whose note is of room room_id, in N's order.
OfRoom(N, room_id) == SelectSeq(N, LAMBDA e : e.note.room_id = room_id)

\* How often x occurs in the sequence s.
Count(s, x) == Cardinality({i \in 1..Len(s) : s[i] = x})

\* C14 (Room isolation): a list command without argument in room R sends
\* one line for each note NOTES holds of room R and no other line, a note
\* of another room with the same text included; it sends "no notes"
\* exactly when NOTES holds no note of R.
C14_RoomIsolation ==
    [][\A h \in Handlers, r \in Rooms :
         Begins(h, "list", r, "")
            => \E group \in BOOLEAN :
                  LET lines == AllLines(hs'[h].out)
                      mine == OfRoom(NOTES, r)
                  IN  /\ Len(lines) = Len(mine)
                      /\ \A j \in 1..Len(mine) :
                            Count(lines, Line(mine[j].note, group))
                               = Cardinality({i \in 1..Len(mine) :
                                    Line(mine[i].note, group)
                                       = Line(mine[j].note, group)})
                      /\ (hs'[h].outcome = "empty") = (mine = <<>>)]_vars

\* A listing of one line was sent in a room while NOTES holds the same
\* text for the other room too.
C14_Witness ==
    \E h \in Handlers :
       /\ hs[h].op = "list" /\ hs[h].text = "" /\ hs[h].outcome = "listed"
       /\ Len(AllLines(hs[h].out)) = 1
       /\ Len(NOTES) = 2
       /\ \E i, j \in 1..Len(NOTES) :
             /\ NOTES[i].note.room_id = hs[h].room
             /\ NOTES[j].note.room_id # hs[h].room
             /\ NOTES[i].note.note_text = NOTES[j].note.note_text

\* The entries of N of room room_id and category c, in N's order.
OfCategory(N, room_id, c) ==
    SelectSeq(N, LAMBDA e : e.note.room_id = room_id /\ e.note.category = c)

\* The section of category c: its lines are those of the notes of the room
\* in that category, in the order NOTES holds them.
IsSection(g, N, room_id, group) ==
    LET mine == OfCategory(N, room_id, g.category) IN
    g.lines = [i \in 1..Len(mine) |-> Line(mine[i].note, group)]

\* C15 (Category filter): the listing for (R, C) is the listing for R with
\* the sections of every category but C left out, C compared as it is
\* written; it has one section at most, and the lines of a section, in
\* either listing, are the notes of that category in the order NOTES holds
\* them, with the sections in the order of their first notes.
C15_CategoryFilter ==
    [][\A h \in Handlers, r \in Rooms, c \in ListArgs :
         Begins(h, "list", r, c)
            => \E group \in BOOLEAN :
                  LET out == hs'[h].out
                      full == _list_notes(NOTES, r, "", group)
                      mine == OfRoom(NOTES, r)
                      first(x) == CHOOSE i \in 1..Len(mine) :
                                     /\ mine[i].note.category = x
                                     /\ \A j \in 1..(i - 1) :
                                           mine[j].note.category # x
                  IN  /\ c # "" => out = SelectSeq(full,
                                            LAMBDA g : g.category = c)
                      /\ c # "" => Len(out) <= 1
                      /\ \A i \in 1..Len(out) :
                            /\ out[i].lines # <<>>
                            /\ IsSection(out[i], NOTES, r, group)
                      /\ \A i, j \in 1..Len(out) :
                            i < j => first(out[i].category)
                                        < first(out[j].category)
                      /\ c = "" => {out[i].category : i \in 1..Len(out)}
                                     = {mine[i].note.category :
                                          i \in 1..Len(mine)}]_vars

\* A listing for one category was sent, of two lines: b, the first of the
\* two in NOTES, before a.
C15_Witness ==
    \E h \in Handlers :
       /\ hs[h].op = "list" /\ hs[h].text = "shop" /\ hs[h].outcome = "listed"
       /\ Len(hs[h].out) = 1 /\ Len(hs[h].out[1].lines) = 2
       /\ hs[h].out[1].lines[1].note_text = "b"
       /\ hs[h].out[1].lines[2].note_text = "a"

\* C16 (A rejected create has no effect): a "note" command whose key
\* NOTES holds ends as a duplicate; the entry under the key keeps its text,
\* category and target_user, NOTES as a whole and the database, the note
\* table with it, are what they were, and no statement was sent to the
\* engine to fail.
C16_DuplicateNoEffect ==
    [][\A h \in Handlers, r \in Rooms, t \in Texts :
         (Begins(h, "note", r, t) /\ DictHas(NOTES, HistKey(r, t)))
            => /\ hs'[h].outcome = "duplicate"
               /\ DictHas(NOTES', HistKey(r, t))
               /\ DictGet(NOTES', HistKey(r, t)) = DictGet(NOTES, HistKey(r, t))
               /\ NOTES' = NOTES
               /\ db' = db
               /\ faults' = faults]_vars

\* A create was rejected as a duplicate of an entry in another case whose
\* own INSERT had failed: NOTES holds the key and the note table no row.
C16_Witness ==
    \E h \in Handlers :
       /\ hs[h].op = "note" /\ hs[h].outcome = "duplicate"
       /\ hist[HistKey(hs[h].room, hs[h].text)] = "failed"
       /\ DictHas(NOTES, HistKey(hs[h].room, hs[h].text))
       /\ DictGet(NOTES, HistKey(hs[h].room, hs[h].text)).note_text
             # hs[h].text
       /\ db.rows = <<>>

\* C17 (Case-variant delete removes the durable row): while the note
\* created as (R, T) is active, a delete of (R, T') with T' another case
\* of T whose DELETE does not raise takes the entry out of NOTES and the
\* row stored as T out of the note table, leaves every other row alone,
\* and NOTES and the table agree afterwards if they did before.
C17_CaseVariantDelete ==
    [][\A h \in Handlers, r \in Rooms, t \in Texts :
         (/\ Begins(h, "delete", r, t)
          /\ hist[HistKey(r, t)] = "active"
          /\ DictHas(NOTES, HistKey(r, t))
          /\ DictGet(NOTES, HistKey(r, t)).note_text # t
          /\ hs'[h].outcome # "error")
            => LET stored == DictGet(NOTES, HistKey(r, t)).note_text IN
               /\ hs'[h].outcome = "deleted"
               /\ ~DictHas(NOTES', HistKey(r, t))
               /\ RowsOf(db, r, stored) # {}
               /\ RowsOf(db', r, stored) = {}
               /\ db'.rows = SelectSeq(db.rows,
                     LAMBDA row : ~(row[3] = r /\ row[1] = stored))
               /\ InLockstep(NOTES, db) => InLockstep(NOTES', db')]_vars

\* One handler has created "a" and is in its await; another has deleted
\* it as "A", and neither NOTES nor the note table holds anything.
C17_Witness ==
    \E h \in Handlers, g \in Handlers :
       /\ hs[g].op = "note" /\ hs[g].text = "a" /\ hs[g].outcome = "created"
       /\ hs[h].op = "delete" /\ hs[h].text = "A" /\ hs[h].outcome = "deleted"
       /\ hs[h].room = hs[g].room
       /\ hist[HistKey(hs[h].room, "a")] = "deleted"
       /\ NOTES = <<>> /\ db.rows = <<>>
       /\ faults = 0

\* C18 (A failure during startup stops all further schema work), as
\* claimed: once a statement of _initial_db_setup has raised, no statement
\* of that startup changes the database.
C18_NoSchemaWorkAsClaimed ==
    [][(phase = "init" /\ pending) => db' = db]_vars

\* C19 (Interrupted migration is recoverable), as claimed: on a database
\* found at version 0, with no statement ever failed by the engine and
\* however often the process was stopped, every statement of the v0 -> v1
\* migration that a startup runs succeeds, and at the last one the note
\* table holds the rows it held before the first attempt.
C19_RecoverableAsClaimed ==
    [][(/\ phase = "init" /\ pc.at = "migrate" /\ ~pending
        /\ faults = 0
        /\ RunDbMigrations(FALSE))
          => /\ MigrationStmt(pc.i, db).ok
             /\ phase' = "init"
             /\ pc.i = MigrationLen => SameRows(db'.rows, legacy)]_vars

\* C20 (Repeated startup is idempotent on schema and data): a startup
\* that has read version 1 from migration_version sends no statement that
\* changes the database: from the SELECT to the end of Storage.__init__,
\* the schema, the version and the note rows stay what they were, at
\* every startup of every process.
C20_StartupIdempotent ==
    [][/\ (phase = "init" /\ pc.at = "select" /\ ReadVersion(FALSE))
             => db' = db
       /\ (phase = "init" /\ migration_level >= 1)
             => /\ db' = db
                /\ pc'.at \notin {"setup", "migrate"}]_vars

\* A process that stored a note was stopped, and the next one has read
\* version 1 and is through `finally`, about to load the notes.
C20_Witness ==
    /\ phase = "init" /\ pc.at = "load"
    /\ migration_level = 1 /\ ~pending
    /\ StoredVersion(db) = 1
    /\ Len(db.rows) >= 1
    /\ faults = 0

\* Every entry of N is under the key (room_id, upper(note_text)) of its
\* note, and no key is there twice.
KeyedByNote(N) ==
    /\ \A j \in 1..Len(N) :
          N[j].key = <<N[j].note.room_id, upper(N[j].note.note_text)>>
    /\ \A i, j \in 1..Len(N) : N[i].key = N[j].key => i = j

\* C21 (Index key invariant): in every state each entry of NOTES is under
\* the key (room_id, upper(note_text)) of the note it holds and no two
\* entries hold notes of one room with the same text but for case; the
\* note a "note" command enters holds the room and the text of the
\* command as typed, and an entry holds the same note for as long as it
\* is there.
C21_IndexKeyInvariant ==
    /\ [](/\ KeyedByNote(NOTES)
          /\ \A i, j \in 1..Len(NOTES) :
                (/\ NOTES[i].note.room_id = NOTES[j].note.room_id
                 /\ upper(NOTES[i].note.note_text)
                       = upper(NOTES[j].note.note_text))
                   => i = j)
    /\ [][/\ \A h \in Handlers, r \in Rooms, t \in Texts :
               (Begins(h, "note", r, t)
                /\ hs'[h].outcome \in {"created", "error"})
                  => /\ DictHas(NOTES', HistKey(r, t))
                     /\ DictGet(NOTES', HistKey(r, t)).note_text = t
                     /\ DictGet(NOTES', HistKey(r, t)).room_id = r
          /\ \A k \in DictKeys(NOTES) \cap DictKeys(NOTES') :
                DictGet(NOTES', k) = DictGet(NOTES, k)]_vars

\* NOTES holds the note typed as "a" under the key of "A", and a create of
\* "A" in the same room has been turned away as a duplicate.
C21_Witness ==
    \E h \in Handlers :
       /\ hs[h].op = "note" /\ hs[h].text = "A" /\ hs[h].outcome = "duplicate"
       /\ Len(NOTES) = 1
       /\ NOTES[1].key = <<hs[h].room, "A">>
       /\ NOTES[1].note.note_text = "a"
       /\ NOTES[1].note.room_id = hs[h].room

====
